---------------------------- MODULE Spec2Model ----------------------------
(***************************************************************************)
(* UniFiApiClient (src/src/unifi_client/unifi.py): the session manager     *)
(* (session property, refresh_session, close) and the request executor     *)
(* (_make_request), run by several threads on one client object; the       *)
(* constructor and the finalizer (SpecLife); the endpoint methods with     *)
(* their argument validation on top of the executor (SpecApi); a `with     *)
(* client:` block (SpecScope); and the same threads under fair scheduling  *)
(* (SpecFair).                                                             *)
(*                                                                         *)
(* A session object is an integer id, handed out in creation order; 0 is   *)
(* Python's None.  Time is an integer clock in the unit of the TTL.        *)
(* Every statement of a `with self._lock:` block that touches shared state *)
(* is a step of its own, so that interleavings are decided by the lock and *)
(* not by the grain of the model.                                          *)
(***************************************************************************)
EXTENDS Integers, Sequences, FiniteSets, TLC

\* ------------------------------------------------------------------ bounds
MaxCalls == 2
MaxClock == 2

\* --------------------------------------------------------------- constants
NoSession == 0
NoTime == -1
DefaultTimeout == 30

\* the callers sharing the client; 0 stands for no thread
Threads == {1, 2}
\* session_ttl_minutes values the constructor is given (it accepts any int)
TTLs == {-1, 1}
\* a logical call creates at most two sessions (first attempt and retry);
\* room for one call more and for a session the client starts with
MaxSessions == 2 * (MaxCalls + 1)
SessionIds == 1..MaxSessions
Ops == {"session", "refresh", "close", "request"}
AuthStatuses == {401, 403}
ErrorStatuses == {401, 403, 500}

\* What one request attempt can end in: session.request / raise_for_status /
\* response.json of _attempt_request.
Outcomes ==
    {[kind |-> "ok", status |-> 200, body |-> "json"]}
    \cup {[kind |-> "http", status |-> s, body |-> "-"] : s \in ErrorStatuses}
    \cup {[kind |-> k, status |-> 0, body |-> "-"] :
             k \in {"timeout", "transport", "badjson"}}

NoResult == [kind |-> "none", exc |-> "-", msg |-> "-", detail |-> 0, body |-> "-"]
Returned(b) ==
    [kind |-> "return", exc |-> "-", msg |-> "-", detail |-> 0, body |-> b]
Raised(e, m, d) ==
    [kind |-> "raise", exc |-> e, msg |-> m, detail |-> d, body |-> "-"]
\* Optional[str] arguments: None is the marker, any other string is itself
NoneStr == "<None>"
Keys == {NoneStr, "", "k"}
\* Python truthiness of an Optional[str]
Falsy(x) == x \in {NoneStr, ""}

\* mutant of Construct: only a missing key is rejected, an empty one accepted
ConstructNoneOnly(k) == IF k = NoneStr THEN "rejected" ELSE "ok"

\* __init__: raises ValueError before any attribute is set, or sets them all
Construct(k) == IF Falsy(k) THEN "rejected" ELSE "ok"


\* ------------------------------------------------------- endpoint methods
\* A timestamp string is a sequence of tokens: the first stands for the whole
\* date-time part ("T1" is YYYY-MM-DDT01:00:00.000, "T2" the same day at
\* 02:00:00.000, "nofrac" a date-time without fractional seconds), every
\* later token is one character.  None and "" are both <<>>: the code only
\* tests such an argument for truth.
Absent == <<>>
GoodBodies == {"T1", "T2"}
Digits == {"0", "1"}
Signs == {"+", "-"}
StampZ1 == <<"T1", "Z">>
StampZ2 == <<"T2", "Z">>
StampT2Plus0 == <<"T2", "+", "0", "0", ":", "0", "0">>
StampT2Plus1 == <<"T2", "+", "0", "1", ":", "0", "0">>
StampNoFrac == <<"nofrac", "Z">>
StampBadSep == <<"T1", "+", "0", "1", "X", "0", "0">>
Stamps == {Absent, StampZ1, StampZ2, StampT2Plus0, StampT2Plus1,
           StampNoFrac, StampBadSep}

Truthy(ts) == ts # <<>>

\* minutes since midnight of a well-formed date-time part
Minutes(b) == IF b = "T1" THEN 60 ELSE 120
DigitVal(d) == IF d = "0" THEN 0 ELSE 1

\* timestamp.endswith('Z')
EndsWithZ(ts) == Len(ts) > 0 /\ ts[Len(ts)] = "Z"

\* timestamp[:-3] + timestamp[-2:]; on fewer than three trailing characters
\* the cut falls into the date-time part, which no longer parses
Clean(ts) ==
    IF Len(ts) >= 4
    THEN SubSeq(ts, 1, Len(ts) - 3) \o SubSeq(ts, Len(ts) - 1, Len(ts))
    ELSE <<"cut">>

\* strptime's %z: +HHMM or +HH:MM
IsZone(z) ==
    \/ /\ Len(z) = 5
       /\ z[1] \in Signs
       /\ \A i \in 2..5 : z[i] \in Digits
    \/ /\ Len(z) = 6
       /\ z[1] \in Signs
       /\ z[4] = ":"
       /\ \A i \in {2, 3, 5, 6} : z[i] \in Digits

ZoneMinutes(z) ==
    LET m1 == IF Len(z) = 5 THEN z[4] ELSE z[5]
        m2 == IF Len(z) = 5 THEN z[5] ELSE z[6]
        v == 60 * (10 * DigitVal(z[2]) + DigitVal(z[3]))
               + 10 * DigitVal(m1) + DigitVal(m2)
    IN IF z[1] = "-" THEN 0 - v ELSE v

ParseError == [ok |-> FALSE, aware |-> FALSE, at |-> 0]

\* _validate_rfc3339: the parsed datetime (naive for the Z form, aware and
\* compared by instant for the offset form), or ValueError
ValidateRfc3339(ts) ==
    IF EndsWithZ(ts)
    THEN IF Len(ts) = 2 /\ ts[1] \in GoodBodies
         THEN [ok |-> TRUE, aware |-> FALSE, at |-> Minutes(ts[1])]
         ELSE ParseError
    ELSE LET c == Clean(ts) IN
         IF c[1] \in GoodBodies /\ IsZone(Tail(c))
         THEN [ok |-> TRUE, aware |-> TRUE,
               at |-> Minutes(c[1]) - ZoneMinutes(Tail(c))]
         ELSE ParseError

\* _validate_timestamp_range: "unchecked" is the early return, "malformed"
\* and "order" are its ValueErrors, "mixed" the TypeError of comparing a
\* naive with an aware datetime
ValidateTimestampRange(b, e) ==
    IF ~(Truthy(b) /\ Truthy(e)) THEN "unchecked"
    ELSE LET bdt == ValidateRfc3339(b)
             edt == ValidateRfc3339(e)
         IN IF ~bdt.ok \/ ~edt.ok THEN "malformed"
            ELSE IF bdt.aware # edt.aware THEN "mixed"
            ELSE IF edt.at <= bdt.at THEN "order"
            ELSE "ok"

\* str(page_size)
Digit(d) ==
    CASE d = 0 -> "0" [] d = 1 -> "1" [] d = 2 -> "2" [] d = 3 -> "3"
      [] d = 4 -> "4" [] d = 5 -> "5" [] d = 6 -> "6" [] d = 7 -> "7"
      [] d = 8 -> "8" [] d = 9 -> "9"
RECURSIVE Str(_)
Str(n) == IF n < 10 THEN Digit(n) ELSE Str(n \div 10) \o Digit(n % 10)

PageMin == 1
PageMax == 100
DefaultPageSize == 10
\* how the caller passes page_size: not at all, by keyword, by position
Modes == {"default", "keyword", "positional"}
Pages == {PageMin - 1, PageMin, PageMax, PageMax + 1}
Types == {"5m", "1h", "10m"}
Durations == {"", "24h"}
Ids == {"", "h1", "a/b"}
Paginated == {"list_hosts", "list_sites", "list_devices"}
Isp == {"get_isp_metrics", "query_isp_metrics"}
ById == {"get_host_by_id", "get_sd_wan_config_by_id", "get_sd_wan_config_status"}

\* one call of an endpoint method: a is time or begin_timestamp, b is
\* end_timestamp.  next_token, host_ids and site_ids are left out: they are
\* not validated and only add optional entries to params or body.
Call(m, md, p, a, b, dur, id, ty) ==
    [m |-> m, mode |-> md, page |-> p, a |-> a, b |-> b, dur |-> dur,
     id |-> id, type |-> ty]
NoCall == Call("none", "default", DefaultPageSize, Absent, Absent, "", "", "")
ApiCalls ==
    {Call(m, "default", DefaultPageSize, Absent, Absent, "", "", "") :
        m \in {"list_hosts", "list_sites", "list_sd_wan_configs"}}
    \cup {Call(m, md, p, Absent, Absent, "", "", "") :
        m \in {"list_hosts", "list_sites"},
        md \in {"keyword", "positional"}, p \in Pages}
    \cup {Call("list_devices", "default", DefaultPageSize, a, Absent, "", "", "") :
        a \in Stamps}
    \cup {Call("list_devices", md, p, a, Absent, "", "", "") :
        md \in {"keyword", "positional"}, p \in Pages, a \in Stamps}
    \cup {Call(m, "default", DefaultPageSize, a, b, dur, "", ty) :
        m \in Isp, a \in Stamps, b \in Stamps, dur \in Durations, ty \in Types}
    \cup {Call(m, "default", DefaultPageSize, Absent, Absent, "", id, "") :
        m \in ById, id \in Ids}

\* what reaches _make_request: method, endpoint, and params or json
Request(verb, path, via, ps, a, b, dur) ==
    [verb |-> verb, path |-> path, via |-> via, pageSize |-> ps,
     a |-> a, b |-> b, duration |-> dur]
NoRequest == Request("-", "-", "none", "", Absent, Absent, "")

\* the synchronous part of an endpoint method ends in one _make_request
\* call or in an exception; range is what _validate_timestamp_range did
Invoke(req, rg) ==
    [kind |-> "invoke", exc |-> "-", msg |-> "-", req |-> req, range |-> rg]
Reject(e, m, rg) ==
    [kind |-> "raise", exc |-> e, msg |-> m, req |-> NoRequest, range |-> rg]

\* list_hosts, list_sites, list_devices below the decorator
ListBody(m, p, time) ==
    CASE m = "list_hosts" ->
            Invoke(Request("GET", "hosts", "params", Str(p), Absent, Absent, ""),
                   "skipped")
      [] m = "list_sites" ->
            Invoke(Request("GET", "sites", "params", Str(p), Absent, Absent, ""),
                   "skipped")
      [] m = "list_devices" ->
            IF Truthy(time) /\ ~ValidateRfc3339(time).ok
            THEN Reject("ValueError", "timestamp", "skipped")
            ELSE Invoke(Request("GET", "devices", "params", Str(p), time,
                                Absent, ""), "skipped")

\* if not 1 <= page_size <= 100
PageOk(p) == PageMin <= p /\ p <= PageMax

\* _validate_page_size's wrapper: page_size is keyword-only there, so a
\* positional page_size stays in *args, the default is validated, and the
\* call func(self, *args, page_size=10) raises TypeError (multiple values)
Wrapper(c) ==
    LET p == IF c.mode = "keyword" THEN c.page ELSE DefaultPageSize IN
    IF ~PageOk(p) THEN Reject("ValueError", "page_size", "skipped")
    ELSE IF c.mode = "positional"
         THEN Reject("TypeError", "multiple values", "skipped")
         ELSE ListBody(c.m, p, c.a)

\* mutant of DurationConflict: only duration with both bounds is a conflict
DurationConflictBoth(c) == c.dur # "" /\ (Truthy(c.a) /\ Truthy(c.b))

\* if duration and (begin_timestamp or end_timestamp)
DurationConflict(c) == c.dur # "" /\ (Truthy(c.a) \/ Truthy(c.b))

IspPath(m, ty) ==
    IF m = "get_isp_metrics"
    THEN "ea/isp-metrics/" \o ty
    ELSE "ea/isp-metrics/" \o ty \o "/query"

\* get_isp_metrics and query_isp_metrics
IspMetrics(c) ==
    IF c.type \notin {"5m", "1h"} THEN Reject("ValueError", "type", "skipped")
    ELSE IF DurationConflict(c) THEN Reject("ValueError", "duration", "skipped")
    ELSE LET rg == IF Truthy(c.a) \/ Truthy(c.b)
                   THEN ValidateTimestampRange(c.a, c.b)
                   ELSE "skipped"
         IN CASE rg \in {"malformed", "order"} ->
                    Reject("ValueError", rg, rg)
              [] rg = "mixed" -> Reject("TypeError", "naive/aware", rg)
              [] OTHER ->
                    Invoke(Request(IF c.m = "get_isp_metrics" THEN "GET" ELSE "POST",
                                   IspPath(c.m, c.type),
                                   IF c.m = "get_isp_metrics" THEN "params" ELSE "json",
                                   "", c.a, c.b, c.dur), rg)

\* mutant of ByIdPath: the status suffix is lost
ByIdPathNoStatus(m, id) ==
    IF m = "get_host_by_id" THEN "hosts/" \o id ELSE "ea/sd-wan-configs/" \o id

\* f"hosts/{host_id}", f"ea/sd-wan-configs/{config_id}" and .../status
ByIdPath(m, id) ==
    CASE m = "get_host_by_id" -> "hosts/" \o id
      [] m = "get_sd_wan_config_by_id" -> "ea/sd-wan-configs/" \o id
      [] m = "get_sd_wan_config_status" ->
            "ea/sd-wan-configs/" \o id \o "/status"

\* get_host_by_id, get_sd_wan_config_by_id, get_sd_wan_config_status
GetById(c) ==
    IF c.id = ""
    THEN Reject("ValueError", "id", "skipped")
    ELSE Invoke(Request("GET", ByIdPath(c.m, c.id), "none", "", Absent,
                        Absent, ""), "skipped")

\* an endpoint method up to its _make_request call
Endpoint(c) ==
    CASE c.m \in Paginated -> Wrapper(c)
      [] c.m \in Isp -> IspMetrics(c)
      [] c.m \in ById -> GetById(c)
      [] c.m = "list_sd_wan_configs" ->
            Invoke(Request("GET", "ea/sd-wan-configs", "none", "", Absent,
                           Absent, ""), "skipped")

\* no endpoint method is being called
NoApi == [phase |-> "none", by |-> 0, call |-> NoCall, req |-> NoRequest,
          invocations |-> 0, range |-> "skipped", ret |-> NoResult]
\* no with block is being run
NoScope == [state |-> "out", exc |-> NoResult]
NoSeen == [sess |-> NoSession, at |-> NoTime, nid |-> 0, closes |-> <<>>]

VARIABLES
    session,      \* self._session
    createdAt,    \* self._session_created_at
    lock,         \* self._lock: the thread holding it, 0 when free
    ttl,          \* self.session_ttl
    clock,        \* datetime.now()
    nextId,       \* the id the next requests.Session() gets
    closes,       \* per session object, the number of close() calls on it
    calls,        \* the operations started so far, over all threads
    pc,           \* per thread, the statement it is at
    op,           \* per thread, the public operation it runs
    now,          \* per thread, the local `now` of the session property
    seen,         \* per thread, the shared state its critical section found
    handle,       \* per thread, the session the property returned
    sent,         \* per thread, the attempts issued by the logical call
    outs,         \* per thread, the outcome of each attempt
    refreshes,    \* per thread, refresh_session calls made by the logical call
    fence,        \* per thread, nextId when its refresh_session cleared
    result,       \* per thread, what the operation returned or raised
    apiKey,       \* self.api_key as given to __init__
    built,        \* whether __init__ ran to its end: "ok" or "rejected"
    api,          \* the endpoint method call being made, if any
    scope         \* per thread, its `with client:` block

\* the request a caller makes through the executor: the one its endpoint
\* method built, or a fixed one when _make_request is entered directly
RequestOf(t) ==
    IF api.phase = "executing" /\ api.by = t THEN api.req
    ELSE IF t % 2 = 1
         THEN Request("GET", "hosts", "params", Str(DefaultPageSize), Absent,
                      Absent, "")
         ELSE Request("POST", "ea/isp-metrics/5m/query", "json", "", Absent,
                      Absent, "")

config == <<ttl, apiKey, built, api, scope>>
client == <<session, createdAt, config, nextId, closes>>
local == <<now, seen, handle, sent, outs, refreshes, fence, result>>
vars == <<session, createdAt, lock, ttl, clock, nextId, closes, calls, pc, op,
          now, seen, handle, sent, outs, refreshes, fence, result,
          apiKey, built, api, scope>>

\* ------------------------------------------------------------ constructor
Fresh ==
    /\ session = NoSession
    /\ createdAt = NoTime
    /\ lock = 0
    /\ ttl \in TTLs
    /\ clock = 0
    /\ nextId = 1
    /\ closes = [s \in SessionIds |-> 0]
    /\ calls = 0
    /\ pc = [t \in Threads |-> "idle"]
    /\ op = [t \in Threads |-> "none"]
    /\ now = [t \in Threads |-> 0]
    /\ seen = [t \in Threads |-> NoSeen]
    /\ handle = [t \in Threads |-> NoSession]
    /\ sent = [t \in Threads |-> <<>>]
    /\ outs = [t \in Threads |-> <<>>]
    /\ refreshes = [t \in Threads |-> 0]
    /\ fence = [t \in Threads |-> 0]
    /\ result = [t \in Threads |-> NoResult]
    /\ api = NoApi
    /\ scope = [t \in Threads |-> NoScope]

\* a client whose construction succeeded
Init ==
    /\ Fresh
    /\ apiKey \in {k \in Keys : Construct(k) = "ok"}
    /\ built = "ok"

\* a constructed client that is new, or holds the session an earlier call
\* left behind
InitApi ==
    /\ \/ session = NoSession /\ createdAt = NoTime /\ nextId = 1
       \/ session = 1 /\ createdAt = 0 /\ nextId = 2
    /\ lock = 0
    /\ ttl \in TTLs
    /\ clock = 0
    /\ closes = [s \in SessionIds |-> 0]
    /\ calls = 0
    /\ pc = [t \in Threads |-> "idle"]
    /\ op = [t \in Threads |-> "none"]
    /\ now = [t \in Threads |-> 0]
    /\ seen = [t \in Threads |-> NoSeen]
    /\ handle = [t \in Threads |-> NoSession]
    /\ sent = [t \in Threads |-> <<>>]
    /\ outs = [t \in Threads |-> <<>>]
    /\ refreshes = [t \in Threads |-> 0]
    /\ fence = [t \in Threads |-> 0]
    /\ result = [t \in Threads |-> NoResult]
    /\ api = NoApi
    /\ scope = [t \in Threads |-> NoScope]
    /\ apiKey \in {k \in Keys : Construct(k) = "ok"}
    /\ built = "ok"

\* any call of the constructor, the rejected ones included
InitLife ==
    /\ Fresh
    /\ apiKey \in Keys
    /\ built = Construct(apiKey)

\* -------------------------------------------------------------- helpers
\* mutants of Expired: a session kept one tick too long, or rotated one early
ExpiredLate(at, n) == n - at > ttl + 1
ExpiredEarly(at, n) == n - at >= ttl

Expired(at, n) == n - at > ttl

NeedsNew(n) ==
    \/ session = NoSession
    \/ createdAt = NoTime
    \/ Expired(createdAt, n)

Snapshot == [sess |-> session, at |-> createdAt, nid |-> nextId, closes |-> closes]

Released(s) == closes[s] > 0

Live == {s \in 1..(nextId - 1) : closes[s] = 0}

FirstPc(o) ==
    CASE o = "session" -> "s_enter"
      [] o = "request" -> "s_enter"
      [] o = "refresh" -> "r_enter"
      [] o \in {"close", "exit", "del"} -> "c_enter"

\* The frame of an operation of a constructed client is set up.
Enter(t, o) ==
    /\ pc[t] \in {"idle", "done"}
    /\ built = "ok"
    /\ calls' = calls + 1
    /\ op' = [op EXCEPT ![t] = o]
    /\ pc' = [pc EXCEPT ![t] = FirstPc(o)]
    /\ now' = [now EXCEPT ![t] = 0]
    /\ seen' = [seen EXCEPT ![t] = NoSeen]
    /\ handle' = [handle EXCEPT ![t] = NoSession]
    /\ sent' = [sent EXCEPT ![t] = <<>>]
    /\ outs' = [outs EXCEPT ![t] = <<>>]
    /\ refreshes' = [refreshes EXCEPT ![t] = 0]
    /\ fence' = [fence EXCEPT ![t] = 0]
    /\ result' = [result EXCEPT ![t] = NoResult]

\* An operation of a constructed client is entered.
Begin(t, o) ==
    /\ Enter(t, o)
    /\ UNCHANGED <<client, lock, clock>>

\* A caller starts one of the client's operations.
Start(t, o) ==
    /\ calls < MaxCalls
    /\ Begin(t, o)

\* The session-management surface alone: session, refresh_session, close,
\* __exit__ and __del__ (both call close()).  __del__ runs when nothing else
\* uses the object, and nothing uses it afterwards.
LifeOps == {"session", "refresh", "close", "exit", "del"}
LifeCalls == MaxCalls + 1

StartLife(t, o) ==
    /\ calls < LifeCalls
    /\ \A u \in Threads : op[u] # "del"
    /\ o = "del" => \A u \in Threads : pc[u] \in {"idle", "done"}
    /\ Begin(t, o)

\* __del__ of an object whose __init__ raised: close() reads self._lock,
\* which was never set, and raises AttributeError
FinalizeRejected(t) ==
    /\ pc[t] = "idle"
    /\ built = "rejected"
    /\ \A u \in Threads : op[u] # "del"
    /\ op' = [op EXCEPT ![t] = "del"]
    /\ pc' = [pc EXCEPT ![t] = "done"]
    /\ result' = [result EXCEPT ![t] = Raised("AttributeError", "_lock", 0)]
    /\ UNCHANGED <<client, lock, clock, calls,
                   now, seen, handle, sent, outs, refreshes, fence>>

\* Wall-clock time passes.
Tick ==
    /\ clock < MaxClock
    /\ clock' = clock + 1
    /\ UNCHANGED <<client, lock, calls, pc, op, local>>

\* ------------------------------------------------------- session property
\* mutant of LockFree: the critical sections do not exclude each other
LockIgnored(t) == TRUE

LockFree(t) == lock = 0

\* with self._lock: now = datetime.now() and the test of the if
SessEnter(t) ==
    /\ pc[t] = "s_enter"
    /\ LockFree(t)
    /\ lock' = t
    /\ now' = [now EXCEPT ![t] = clock]
    /\ seen' = [seen EXCEPT ![t] = Snapshot]
    /\ pc' = [pc EXCEPT ![t] =
                 IF NeedsNew(clock)
                 THEN (IF session # NoSession THEN "s_close" ELSE "s_create")
                 ELSE "s_ret"]
    /\ UNCHANGED <<client, clock, calls, op,
                   handle, sent, outs, refreshes, fence, result>>

\* mutant of SessClose: the expired session is replaced without being closed
SessCloseSkip(t) ==
    /\ pc[t] = "s_close"
    /\ pc' = [pc EXCEPT ![t] = "s_create"]
    /\ UNCHANGED <<client, lock, clock, calls, op, local>>

\* self._session.close()
SessClose(t) ==
    /\ pc[t] = "s_close"
    /\ closes' = [closes EXCEPT ![session] = @ + 1]
    /\ pc' = [pc EXCEPT ![t] = "s_create"]
    /\ UNCHANGED <<session, createdAt, config, nextId, lock, clock, calls, op, local>>

\* mutant of SessCreate: the last session object is taken up again
SessCreateReuse(t) ==
    /\ pc[t] = "s_create"
    /\ session' = IF nextId > 1 THEN nextId - 1 ELSE nextId
    /\ nextId' = IF nextId > 1 THEN nextId ELSE nextId + 1
    /\ pc' = [pc EXCEPT ![t] = "s_stamp"]
    /\ UNCHANGED <<createdAt, config, closes, lock, clock, calls, op, local>>

\* self._session = self._create_session()
SessCreate(t) ==
    /\ pc[t] = "s_create"
    /\ session' = nextId
    /\ nextId' = nextId + 1
    /\ pc' = [pc EXCEPT ![t] = "s_stamp"]
    /\ UNCHANGED <<createdAt, config, closes, lock, clock, calls, op, local>>

\* mutant of SessStamp: the new session is not stamped
SessStampSkip(t) ==
    /\ pc[t] = "s_stamp"
    /\ pc' = [pc EXCEPT ![t] = "s_ret"]
    /\ UNCHANGED <<client, lock, clock, calls, op, local>>

\* self._session_created_at = now
SessStamp(t) ==
    /\ pc[t] = "s_stamp"
    /\ createdAt' = now[t]
    /\ pc' = [pc EXCEPT ![t] = "s_ret"]
    /\ UNCHANGED <<session, config, nextId, closes, lock, clock, calls, op, local>>

\* mutant of SessReturn: the session is returned with the lock still held
SessReturnHold(t) ==
    /\ pc[t] = "s_ret"
    /\ handle' = [handle EXCEPT ![t] =
                     IF op[t] = "request" THEN session ELSE NoSession]
    /\ now' = [now EXCEPT ![t] = 0]
    /\ seen' = [seen EXCEPT ![t] = NoSeen]
    /\ pc' = [pc EXCEPT ![t] = IF op[t] = "request" THEN "issue" ELSE "done"]
    /\ result' = [result EXCEPT ![t] =
                     IF op[t] = "request" THEN @
                     ELSE [Returned("session") EXCEPT !.detail = session]]
    /\ UNCHANGED <<client, lock, clock, calls, op, sent, outs, refreshes, fence>>

\* return self._session, leaving the with block; only a request keeps the
\* handle, the locals of the property are gone
SessReturn(t) ==
    /\ pc[t] = "s_ret"
    /\ handle' = [handle EXCEPT ![t] =
                     IF op[t] = "request" THEN session ELSE NoSession]
    /\ now' = [now EXCEPT ![t] = 0]
    /\ seen' = [seen EXCEPT ![t] = NoSeen]
    /\ lock' = 0
    /\ pc' = [pc EXCEPT ![t] = IF op[t] = "request" THEN "issue" ELSE "done"]
    /\ result' = [result EXCEPT ![t] =
                     IF op[t] = "request" THEN @
                     ELSE [Returned("session") EXCEPT !.detail = session]]
    /\ UNCHANGED <<client, clock, calls, op, sent, outs, refreshes, fence>>

\* -------------------------------------------------------- refresh_session
\* mutant of RefreshEnter: the fields are cleared, the session is not closed
RefreshEnterNoClose(t) ==
    /\ pc[t] = "r_enter"
    /\ lock = 0
    /\ lock' = t
    /\ seen' = [seen EXCEPT ![t] = Snapshot]
    /\ session' = NoSession
    /\ createdAt' = NoTime
    /\ fence' = [fence EXCEPT ![t] = nextId]
    /\ pc' = [pc EXCEPT ![t] = "r_exit"]
    /\ UNCHANGED <<config, nextId, closes, clock, calls, op,
                   now, handle, sent, outs, refreshes, result>>

\* mutant of RefreshEnter: the session is closed, the fields are kept
RefreshEnterKeep(t) ==
    /\ pc[t] = "r_enter"
    /\ lock = 0
    /\ lock' = t
    /\ seen' = [seen EXCEPT ![t] = Snapshot]
    /\ closes' = IF session # NoSession
                 THEN [closes EXCEPT ![session] = @ + 1]
                 ELSE closes
    /\ fence' = [fence EXCEPT ![t] = nextId]
    /\ pc' = [pc EXCEPT ![t] = "r_exit"]
    /\ UNCHANGED <<session, createdAt, config, nextId, clock, calls, op,
                   now, handle, sent, outs, refreshes, result>>

\* with self._lock: if self._session: close(); both fields = None
RefreshEnter(t) ==
    /\ pc[t] = "r_enter"
    /\ LockFree(t)
    /\ lock' = t
    /\ seen' = [seen EXCEPT ![t] = Snapshot]
    /\ closes' = IF session # NoSession
                 THEN [closes EXCEPT ![session] = @ + 1]
                 ELSE closes
    /\ session' = NoSession
    /\ createdAt' = NoTime
    /\ fence' = [fence EXCEPT ![t] = nextId]
    /\ pc' = [pc EXCEPT ![t] = "r_exit"]
    /\ UNCHANGED <<config, nextId, clock, calls, op,
                   now, handle, sent, outs, refreshes, result>>

\* mutant of RefreshExit: refresh_session returns with the lock still held
RefreshExitHold(t) ==
    /\ pc[t] = "r_exit"
    /\ pc' = [pc EXCEPT ![t] = IF op[t] = "request" THEN "s_enter" ELSE "done"]
    /\ result' = [result EXCEPT ![t] =
                     IF op[t] = "request" THEN @ ELSE Returned("None")]
    /\ seen' = [seen EXCEPT ![t] = NoSeen]
    /\ UNCHANGED <<client, lock, clock, calls, op,
                   now, handle, sent, outs, refreshes, fence>>

\* leaving the with block; a refresh made by _make_request goes on to the retry
RefreshExit(t) ==
    /\ pc[t] = "r_exit"
    /\ lock' = 0
    /\ pc' = [pc EXCEPT ![t] = IF op[t] = "request" THEN "s_enter" ELSE "done"]
    /\ result' = [result EXCEPT ![t] =
                     IF op[t] = "request" THEN @ ELSE Returned("None")]
    /\ seen' = [seen EXCEPT ![t] = NoSeen]
    /\ UNCHANGED <<client, clock, calls, op,
                   now, handle, sent, outs, refreshes, fence>>

\* ------------------------------------------------------------------ close
\* mutant of CloseEnter: the session is closed, the fields are kept
CloseEnterKeep(t) ==
    /\ pc[t] = "c_enter"
    /\ lock = 0
    /\ lock' = t
    /\ seen' = [seen EXCEPT ![t] = Snapshot]
    /\ closes' = IF session # NoSession
                 THEN [closes EXCEPT ![session] = @ + 1]
                 ELSE closes
    /\ pc' = [pc EXCEPT ![t] = "c_exit"]
    /\ UNCHANGED <<session, createdAt, config, nextId, clock, calls, op,
                   now, handle, sent, outs, refreshes, fence, result>>

\* mutant of CloseEnter: the session is closed twice
CloseEnterTwice(t) ==
    /\ pc[t] = "c_enter"
    /\ lock = 0
    /\ lock' = t
    /\ seen' = [seen EXCEPT ![t] = Snapshot]
    /\ IF session # NoSession
       THEN /\ closes' = [closes EXCEPT ![session] = @ + 2]
            /\ session' = NoSession
            /\ createdAt' = NoTime
       ELSE UNCHANGED <<closes, session, createdAt>>
    /\ pc' = [pc EXCEPT ![t] = "c_exit"]
    /\ UNCHANGED <<config, nextId, clock, calls, op,
                   now, handle, sent, outs, refreshes, fence, result>>

\* with self._lock: if self._session: close(); both fields = None
CloseEnter(t) ==
    /\ pc[t] = "c_enter"
    /\ LockFree(t)
    /\ lock' = t
    /\ seen' = [seen EXCEPT ![t] = Snapshot]
    /\ IF session # NoSession
       THEN /\ closes' = [closes EXCEPT ![session] = @ + 1]
            /\ session' = NoSession
            /\ createdAt' = NoTime
       ELSE UNCHANGED <<closes, session, createdAt>>
    /\ pc' = [pc EXCEPT ![t] = "c_exit"]
    /\ UNCHANGED <<config, nextId, clock, calls, op,
                   now, handle, sent, outs, refreshes, fence, result>>

CloseExit(t) ==
    /\ pc[t] = "c_exit"
    /\ lock' = 0
    /\ pc' = [pc EXCEPT ![t] = "done"]
    /\ result' = [result EXCEPT ![t] = Returned("None")]
    /\ seen' = [seen EXCEPT ![t] = NoSeen]
    /\ UNCHANGED <<client, clock, calls, op,
                   now, handle, sent, outs, refreshes, fence>>

\* ---------------------------------------------------------- _make_request
\* _attempt_request: the request goes out on the handle the property returned
Issue(t) ==
    /\ pc[t] = "issue"
    /\ sent' = [sent EXCEPT ![t] =
                   Append(@, [sess |-> handle[t], req |-> RequestOf(t),
                              released |-> Released(handle[t])])]
    /\ handle' = [handle EXCEPT ![t] = NoSession]
    /\ pc' = [pc EXCEPT ![t] = "inflight"]
    /\ UNCHANGED <<client, lock, clock, calls, op,
                   now, seen, outs, refreshes, fence, result>>

\* mutant of IsAuthError: every HTTP error status is taken for an auth error
IsAuthErrorAnyHttp(o) == o.kind = "http"

IsAuthError(o) == o.kind = "http" /\ o.status \in AuthStatuses

\* mutant of FirstFailure: except RequestException placed before except Timeout
\* (Timeout is a RequestException), so a timeout is reported as a plain failure
FirstFailureShadowed(o) ==
    CASE o.kind = "http" ->
            Raised("UniFiApiError", "API request failed", o.status)
      [] o.kind \in {"timeout", "transport", "badjson"} ->
            Raised("UniFiApiError", "Request failed", 0)

\* What the except clauses of the outer try make of the first attempt's failure
\* ("badjson" is response.json() raising ValueError, lines 150-152).
FirstFailure(o) ==
    CASE o.kind = "http" ->
            Raised("UniFiApiError", "API request failed", o.status)
      [] o.kind = "timeout" ->
            Raised("UniFiApiError", "Request timed out", DefaultTimeout)
      [] o.kind = "transport" ->
            Raised("UniFiApiError", "Request failed", 0)
      [] o.kind = "badjson" ->
            Raised("UniFiApiError", "Invalid JSON response", 0)

\* The retry runs inside the except HTTPError handler: only the inner
\* except HTTPError guards it, the sibling clauses of the outer try do not.
RetryFailure(o) ==
    CASE o.kind = "http" ->
            Raised("UniFiApiError", "API request failed after retry", o.status)
      [] o.kind = "timeout" -> Raised("Timeout", "-", 0)
      [] o.kind = "transport" -> Raised("RequestException", "-", 0)
      [] o.kind = "badjson" -> Raised("ValueError", "-", 0)

\* The attempt ends in outcome o and the try / except of _make_request runs;
\* when the call ends its frame (the attempts it issued) is gone.
Resolve(t, o) ==
    /\ pc[t] = "inflight"
    /\ outs' = [outs EXCEPT ![t] = Append(@, o)]
    /\ LET n == Len(outs[t]) + 1
       IN  IF n = 1 /\ IsAuthError(o)
           THEN /\ refreshes' = [refreshes EXCEPT ![t] = @ + 1]
                /\ pc' = [pc EXCEPT ![t] = "r_enter"]
                /\ UNCHANGED <<result, sent, fence>>
           ELSE /\ result' = [result EXCEPT ![t] =
                                 IF o.kind = "ok" THEN Returned(o.body)
                                 ELSE IF n = 1 THEN FirstFailure(o)
                                 ELSE RetryFailure(o)]
                /\ pc' = [pc EXCEPT ![t] = "done"]
                /\ sent' = [sent EXCEPT ![t] = <<>>]
                /\ fence' = [fence EXCEPT ![t] = 0]
                /\ UNCHANGED refreshes
    /\ UNCHANGED <<client, lock, clock, calls, op, now, seen, handle>>

\* ------------------------------------------------------- endpoint methods
\* the caller of the endpoint method; one call is followed to its end
ApiCallers == {1}

\* An endpoint method is called with arguments c: it validates them and
\* either raises, or calls _make_request once and returns what that returns.
ApiCall(t, c) ==
    /\ api.phase = "none"
    /\ calls < MaxCalls
    /\ LET o == Endpoint(c) IN
       IF o.kind = "invoke"
       THEN /\ Enter(t, "request")
            /\ api' = [phase |-> "executing", by |-> t, call |-> c,
                       req |-> o.req, invocations |-> 1, range |-> o.range,
                       ret |-> NoResult]
       ELSE /\ pc[t] \in {"idle", "done"}
            /\ built = "ok"
            /\ calls' = calls + 1
            /\ op' = [op EXCEPT ![t] = "endpoint"]
            /\ pc' = [pc EXCEPT ![t] = "done"]
            /\ result' = [result EXCEPT ![t] = NoResult]
            /\ api' = [phase |-> "done", by |-> t, call |-> c,
                       req |-> NoRequest, invocations |-> 0,
                       range |-> o.range, ret |-> Raised(o.exc, o.msg, 0)]
            /\ UNCHANGED <<now, seen, handle, sent, outs, refreshes, fence>>
    /\ UNCHANGED <<session, createdAt, ttl, apiKey, built, scope, nextId,
                   closes, lock, clock>>

\* return self._make_request(...): what the executor returned or raised is
\* what the endpoint method returns or raises
ApiReturn(t) ==
    /\ api.phase = "executing"
    /\ api.by = t
    /\ op[t] = "request"
    /\ pc[t] = "done"
    /\ api' = [api EXCEPT !.phase = "done", !.ret = result[t]]
    /\ UNCHANGED <<session, createdAt, ttl, apiKey, built, scope, nextId,
                   closes, lock, clock, calls, pc, op, local>>

\* ------------------------------------------------------ with client: ...
\* the endpoint calls made in the body of a with block
ScopeCalls == {c \in ApiCalls : c.m \in ById \cup {"list_hosts"}}

\* what the body of the with block raised, if it did
BodyRaised ==
    IF api.phase = "done" /\ api.ret.kind = "raise" THEN api.ret ELSE NoResult

\* __enter__: return self
ScopeEnter(t) ==
    /\ scope[t].state = "out"
    /\ pc[t] = "idle"
    /\ built = "ok"
    /\ scope' = [scope EXCEPT ![t].state = "in"]
    /\ UNCHANGED <<session, createdAt, ttl, apiKey, built, api, nextId, closes,
                   lock, clock, calls, pc, op, local>>

\* client.session, in the body before its endpoint call or after the block
ScopeAcquire(t) ==
    /\ \/ scope[t].state = "in" /\ api.phase = "none" /\ calls < MaxCalls - 1
       \/ scope[t].state = "left" /\ calls < MaxCalls + 2
    /\ Begin(t, "session")

\* an endpoint method called in the body
ScopeCall(t, c) ==
    /\ scope[t].state = "in"
    /\ ApiCall(t, c)

\* mutant of ScopeExit: an exception of the body is dropped
ScopeExitSwallow(t) ==
    /\ scope[t].state = "in"
    /\ api.phase # "executing"
    /\ Enter(t, "exit")
    /\ scope' = [scope EXCEPT ![t] = [state |-> "exiting", exc |-> NoResult]]
    /\ UNCHANGED <<session, createdAt, ttl, apiKey, built, api, nextId, closes,
                   lock, clock>>

\* the body ended, normally or by an exception: __exit__ is called with it
\* and calls close()
ScopeExit(t) ==
    /\ scope[t].state = "in"
    /\ api.phase # "executing"
    /\ Enter(t, "exit")
    /\ scope' = [scope EXCEPT ![t] = [state |-> "exiting", exc |-> BodyRaised]]
    /\ UNCHANGED <<session, createdAt, ttl, apiKey, built, api, nextId, closes,
                   lock, clock>>

\* __exit__ returns None after close(): the with statement re-raises the
\* exception of the body, if there was one
ScopeLeave(t) ==
    /\ scope[t].state = "exiting"
    /\ op[t] = "exit"
    /\ pc[t] = "done"
    /\ scope' = [scope EXCEPT ![t].state = "left"]
    /\ result' = [result EXCEPT ![t] =
                     IF scope[t].exc.kind = "raise" THEN scope[t].exc ELSE @]
    /\ UNCHANGED <<session, createdAt, ttl, apiKey, built, api, nextId, closes,
                   lock, clock, calls, pc, op,
                   now, seen, handle, sent, outs, refreshes, fence>>

Next ==
    \/ \E t \in Threads, o \in Ops : Start(t, o)
    \/ Tick
    \/ \E t \in Threads : SessEnter(t)
    \/ \E t \in Threads : SessClose(t)
    \/ \E t \in Threads : SessCreate(t)
    \/ \E t \in Threads : SessStamp(t)
    \/ \E t \in Threads : SessReturn(t)
    \/ \E t \in Threads : RefreshEnter(t)
    \/ \E t \in Threads : RefreshExit(t)
    \/ \E t \in Threads : CloseEnter(t)
    \/ \E t \in Threads : CloseExit(t)
    \/ \E t \in Threads : Issue(t)
    \/ \E t \in Threads, o \in Outcomes : Resolve(t, o)

Spec == Init /\ [][Next]_vars

\* the steps a thread takes by itself once it is scheduled
Step(t) ==
    \/ SessEnter(t) \/ SessClose(t) \/ SessCreate(t) \/ SessStamp(t)
    \/ SessReturn(t)
    \/ RefreshEnter(t) \/ RefreshExit(t)
    \/ CloseEnter(t) \/ CloseExit(t)
    \/ Issue(t)

\* every thread is scheduled again and again, and session.request(...,
\* timeout=self.timeout) ends: in a response, a timeout or a failure
Fairness ==
    \A t \in Threads :
        /\ WF_vars(Step(t))
        /\ WF_vars(\E o \in Outcomes : Resolve(t, o))

SpecFair == Spec /\ Fairness

\* the session-management surface, from any call of the constructor
NextLife ==
    \/ \E t \in Threads, o \in LifeOps : StartLife(t, o)
    \/ \E t \in Threads : FinalizeRejected(t)
    \/ Tick
    \/ \E t \in Threads : SessEnter(t)
    \/ \E t \in Threads : SessClose(t)
    \/ \E t \in Threads : SessCreate(t)
    \/ \E t \in Threads : SessStamp(t)
    \/ \E t \in Threads : SessReturn(t)
    \/ \E t \in Threads : RefreshEnter(t)
    \/ \E t \in Threads : RefreshExit(t)
    \/ \E t \in Threads : CloseEnter(t)
    \/ \E t \in Threads : CloseExit(t)

SpecLife == InitLife /\ [][NextLife]_vars

\* the endpoint methods on top of the executor
NextApi ==
    \/ \E t \in ApiCallers, c \in ApiCalls : ApiCall(t, c)
    \/ \E t \in ApiCallers : ApiReturn(t)
    \/ Tick
    \/ \E t \in Threads : SessEnter(t)
    \/ \E t \in Threads : SessClose(t)
    \/ \E t \in Threads : SessCreate(t)
    \/ \E t \in Threads : SessStamp(t)
    \/ \E t \in Threads : SessReturn(t)
    \/ \E t \in Threads : RefreshEnter(t)
    \/ \E t \in Threads : RefreshExit(t)
    \/ \E t \in Threads : Issue(t)
    \/ \E t \in Threads, o \in Outcomes : Resolve(t, o)

SpecApi == InitApi /\ [][NextApi]_vars

\* one caller's with block: acquisitions and an endpoint call in the body,
\* __exit__, and the client afterwards
NextScope ==
    \/ \E t \in ApiCallers : ScopeEnter(t)
    \/ \E t \in ApiCallers : ScopeAcquire(t)
    \/ \E t \in ApiCallers, c \in ScopeCalls : ScopeCall(t, c)
    \/ \E t \in ApiCallers : ApiReturn(t)
    \/ \E t \in ApiCallers : ScopeExit(t)
    \/ \E t \in ApiCallers : ScopeLeave(t)
    \/ Tick
    \/ \E t \in Threads : SessEnter(t)
    \/ \E t \in Threads : SessClose(t)
    \/ \E t \in Threads : SessCreate(t)
    \/ \E t \in Threads : SessStamp(t)
    \/ \E t \in Threads : SessReturn(t)
    \/ \E t \in Threads : RefreshEnter(t)
    \/ \E t \in Threads : RefreshExit(t)
    \/ \E t \in Threads : CloseEnter(t)
    \/ \E t \in Threads : CloseExit(t)
    \/ \E t \in Threads : Issue(t)
    \/ \E t \in Threads, o \in Outcomes : Resolve(t, o)

SpecScope == InitApi /\ [][NextScope]_vars

\* ========================================================================
\* Properties
\* ========================================================================
Reqs == {t \in Threads : op[t] = "request"}
Attempts(t) == IF pc[t] = "done" THEN Len(outs[t]) ELSE Len(sent[t])
AuthFailure(o) == o.kind = "http" /\ o.status \in {401, 403}
OtherFailure(o) == o.kind # "ok" /\ ~AuthFailure(o)
ApiError(r) == r.kind = "raise" /\ r.exc = "UniFiApiError"
InCritical(t) ==
    pc[t] \in {"s_close", "s_create", "s_stamp", "s_ret", "r_exit", "c_exit"}

\* C1: a logical call of _make_request retries exactly once, after one forced
\* refresh, exactly when its first attempt ended in HTTP 401 or 403; the retry
\* sends the same request; a successful retry's body is returned and a retry
\* failing with an HTTP status raises UniFiApiError carrying that status; a
\* call never makes more than 2 attempts nor more than 1 refresh.
C1_RetryOnceOnAuthFailure ==
    \A t \in Reqs :
        /\ Len(sent[t]) <= 2 /\ Len(outs[t]) <= 2 /\ refreshes[t] <= 1
        /\ \A i \in 1..Len(sent[t]) : sent[t][i].req = RequestOf(t)
        /\ Len(outs[t]) >= 1 =>
              (refreshes[t] = 1 <=> AuthFailure(outs[t][1]))
        /\ Len(outs[t]) = 0 => refreshes[t] = 0
        /\ (Len(sent[t]) = 2 \/ Len(outs[t]) = 2) =>
              /\ AuthFailure(outs[t][1])
              /\ refreshes[t] = 1
        /\ Len(sent[t]) = 2 => fence[t] >= 1
        /\ pc[t] = "done" =>
              /\ Len(outs[t]) = (IF AuthFailure(outs[t][1]) THEN 2 ELSE 1)
              /\ Len(outs[t]) = 2 =>
                    LET o == outs[t][2]
                    IN  /\ o.kind = "ok" => result[t] = Returned(o.body)
                        /\ o.kind = "http" =>
                              /\ ApiError(result[t])
                              /\ result[t].detail = o.status

\* a call whose retry failed with 401 or 403 again has ended
C1_Witness ==
    \E t \in Reqs :
        /\ pc[t] = "done"
        /\ Len(outs[t]) = 2
        /\ AuthFailure(outs[t][2])
        /\ ApiError(result[t])

\* C2: every call of _make_request that does not return decoded data raises
\* UniFiApiError, on the first attempt and on the retry alike.
C2_OnlyApiErrorEscapes ==
    \A t \in Reqs :
        pc[t] = "done" => result[t].kind = "return" \/ ApiError(result[t])

\* C3: a first attempt failing with anything but 401/403 ends the call at
\* once: one attempt, no refresh, UniFiApiError raised (with the status code
\* for an HTTP failure, the configured timeout for a timeout), and handling
\* the error leaves the session, its timestamp and every session's close
\* count as they were.
C3_EndsAtOnce ==
    \A t \in Reqs :
        (Len(outs[t]) >= 1 /\ OtherFailure(outs[t][1])) =>
            /\ pc[t] = "done"
            /\ Len(outs[t]) = 1
            /\ refreshes[t] = 0
            /\ ApiError(result[t])
            /\ outs[t][1].kind = "http" =>
                  result[t].detail = outs[t][1].status
            /\ outs[t][1].kind = "timeout" =>
                  /\ result[t].msg = "Request timed out"
                  /\ result[t].detail = DefaultTimeout

C3_HandlingStep ==
    \A t \in Threads :
        (/\ pc[t] = "inflight"
         /\ Len(outs[t]) = 0
         /\ Len(outs'[t]) = 1
         /\ OtherFailure(outs'[t][1])) =>
            /\ UNCHANGED <<session, createdAt, nextId, closes, lock>>
            /\ pc'[t] = "done"

\* C3: both parts, the state of a call whose first attempt failed otherwise
\* (C3_EndsAtOnce) and the step that handles the failure (C3_HandlingStep).
C3_NoRetryNoRefresh == []C3_EndsAtOnce /\ [][C3_HandlingStep]_vars

\* the first attempt of a call timed out and the call has ended
C3_Witness ==
    \E t \in Reqs :
        /\ pc[t] = "done"
        /\ Len(outs[t]) = 1
        /\ outs[t][1].kind = "timeout"
        /\ session # NoSession

\* C4: an acquisition that finds a session older than the TTL returns a
\* session object distinct from it, newly created, stamped with the
\* acquisition time, and has closed the old one exactly once.
C4_ExpiredSessionRotated ==
    \A t \in Threads :
        (/\ pc[t] = "s_ret"
         /\ seen[t].sess # NoSession
         /\ seen[t].at # NoTime
         /\ now[t] - seen[t].at > ttl) =>
            /\ session # NoSession
            /\ session # seen[t].sess
            /\ session = seen[t].nid
            /\ nextId = seen[t].nid + 1
            /\ createdAt = now[t]
            /\ closes = [seen[t].closes EXCEPT ![seen[t].sess] = @ + 1]
            /\ closes[seen[t].sess] = 1
            /\ closes[session] = 0

\* a session that aged past a non-negative TTL has just been replaced
C4_Witness ==
    \E t \in Threads :
        /\ pc[t] = "s_ret"
        /\ seen[t].sess # NoSession
        /\ seen[t].at # NoTime
        /\ ttl >= 0
        /\ now[t] - seen[t].at > ttl

\* C5: an acquisition that finds a session whose age is within the TTL (an
\* age equal to the TTL included) returns that same object, creates nothing,
\* closes nothing and leaves the creation timestamp alone.
C5_FreshSessionReused ==
    \A t \in Threads :
        (/\ pc[t] \in {"s_close", "s_create", "s_stamp", "s_ret"}
         /\ seen[t].sess # NoSession
         /\ seen[t].at # NoTime
         /\ now[t] - seen[t].at <= ttl) =>
            /\ pc[t] = "s_ret"
            /\ session = seen[t].sess
            /\ createdAt = seen[t].at
            /\ nextId = seen[t].nid
            /\ closes = seen[t].closes
            /\ closes[session] = 0

\* a session exactly as old as a positive TTL is being returned again
C5_Witness ==
    \E t \in Threads :
        /\ pc[t] = "s_ret"
        /\ seen[t].sess # NoSession
        /\ ttl > 0
        /\ now[t] - seen[t].at = ttl

\* C6: the client never has two live sessions (created and not yet closed),
\* and a session is created only when no live one exists.
C6_AtMostOneLiveSession ==
    /\ Cardinality(Live) <= 1
    /\ \A t \in Threads : pc[t] = "s_create" => Live = {}
    /\ \A s \in SessionIds : s >= nextId => closes[s] = 0

\* a later session is live while a request of another call is in flight and
\* an earlier session has been released
C6_Witness ==
    /\ nextId >= 3
    /\ Cardinality(Live) = 1
    /\ \E t \in Threads : pc[t] = "inflight"
    /\ \E t \in Threads : InCritical(t)

C8_NeverIssuedOnReleased ==
    \A t \in Threads : \A i \in 1..Len(sent[t]) : ~sent[t][i].released

\* C9: refresh_session closes the current session exactly once if there is
\* one, leaves the client with no session and no timestamp and creates
\* nothing; an acquisition that finds no session creates a new one that is
\* none of the released ones.
C9_RefreshClears ==
    /\ \A t \in Threads :
          pc[t] = "r_exit" =>
              /\ session = NoSession
              /\ createdAt = NoTime
              /\ nextId = seen[t].nid
              /\ closes = IF seen[t].sess # NoSession
                          THEN [seen[t].closes EXCEPT ![seen[t].sess] = @ + 1]
                          ELSE seen[t].closes
              /\ seen[t].sess # NoSession => closes[seen[t].sess] = 1
    /\ \A t \in Threads :
          (pc[t] = "s_ret" /\ seen[t].sess = NoSession) =>
              /\ session = seen[t].nid
              /\ closes[session] = 0
              /\ \A s \in SessionIds : closes[s] > 0 => s # session

\* the retry of a call acquires after the call's own refresh released the
\* session of its first attempt
C9_Witness ==
    \E t \in Reqs :
        /\ pc[t] = "s_ret"
        /\ Len(sent[t]) = 1
        /\ fence[t] = sent[t][1].sess + 1
        /\ closes[sent[t][1].sess] = 1
        /\ seen[t].sess = NoSession

\* C10: the retry after a 401/403 is issued on a session created after the
\* caller's refresh, never on the session of the failed first attempt.
C10_RetryOnFreshSession ==
    \A t \in Reqs :
        /\ (pc[t] = "issue" /\ Len(sent[t]) = 1) =>
              /\ fence[t] >= 1
              /\ handle[t] >= fence[t]
              /\ handle[t] # sent[t][1].sess
        /\ Len(sent[t]) = 2 =>
              /\ fence[t] >= 1
              /\ fence[t] > sent[t][1].sess
              /\ sent[t][2].sess >= fence[t]
              /\ sent[t][2].sess # sent[t][1].sess

\* a retry is in flight on a session another thread created after the
\* caller's refresh
C10_Witness ==
    \E t \in Reqs :
        /\ pc[t] = "inflight"
        /\ Len(sent[t]) = 2
        /\ sent[t][2].sess > fence[t]

\* ---------------------------------------------------------------------------
\* close(), construction and expiry at the instant of acquisition
\* ---------------------------------------------------------------------------

Closers == {t \in Threads : op[t] \in {"close", "exit", "del"}}

\* C11: close() leaves no session and no timestamp and releases the session
\* it found exactly once; a close() that finds no session changes nothing,
\* releases nothing, and every close() of a constructed client returns.
C11_CloseIdempotent ==
    \A t \in Closers :
        /\ pc[t] = "c_exit" =>
              /\ session = NoSession
              /\ createdAt = NoTime
              /\ nextId = seen[t].nid
              /\ seen[t].sess # NoSession =>
                    /\ closes = [seen[t].closes EXCEPT ![seen[t].sess] = @ + 1]
                    /\ closes[seen[t].sess] = 1
              /\ seen[t].sess = NoSession =>
                    /\ closes = seen[t].closes
                    /\ seen[t].at = NoTime
        /\ (pc[t] = "done" /\ built = "ok") => result[t] = Returned("None")

\* a close() directly after a completed close() that released session 1:
\* it found nothing to release
C11_Witness ==
    \E t, u \in Threads :
        /\ t # u
        /\ op[u] = "close" /\ pc[u] = "done"
        /\ op[t] = "close" /\ pc[t] = "c_exit"
        /\ seen[t].sess = NoSession
        /\ closes[1] = 1
        /\ nextId = 2
        /\ calls = LifeCalls

\* C12: close() raises in no state from which it can be invoked, the
\* finalizer of an object whose construction was rejected included.
C12_CloseNeverRaises ==
    \A t \in Closers : pc[t] = "done" => result[t].kind = "return"

\* C13: whatever TTL the constructor accepted, the handle an acquisition
\* returns is not expired at the instant the acquisition read the clock.
C13_ReturnedHandleNotExpired ==
    \A t \in Threads : pc[t] = "s_ret" => ~(now[t] - createdAt > ttl)

C20_State ==
    /\ built = "rejected" <=> apiKey \in {NoneStr, ""}
    /\ built = "rejected" =>
          /\ session = NoSession /\ createdAt = NoTime /\ nextId = 1
          /\ calls = 0
    /\ nextId = 1 => session = NoSession /\ createdAt = NoTime
    /\ calls = 0 => nextId = 1

\* a session comes into being only in the creation step of an acquisition
C20_CreatedByAcquisition ==
    (nextId' # nextId \/ (session = NoSession /\ session' # NoSession)) =>
        \E t \in Threads :
            /\ op[t] \in {"session", "request"}
            /\ pc[t] = "s_create"
            /\ pc'[t] = "s_stamp"

\* C20: construction is rejected exactly for a missing or empty API key, and
\* a constructed client holds no session and no timestamp until an
\* acquisition creates one.
C20_ConstructionLazy == []C20_State /\ [][C20_CreatedByAcquisition]_vars

\* a constructed client whose first acquisition is about to create the first
\* session: still none held
C20_Witness ==
    /\ built = "ok"
    /\ apiKey = "k"
    /\ nextId = 1
    /\ \E t \in Threads : op[t] = "session" /\ pc[t] = "s_create"

\* ---------------------------------------------------------------------------
\* endpoint methods: validation before the executor, one invocation after it
\* ---------------------------------------------------------------------------

\* the restricted RFC3339 form: date-time with fractional seconds, then Z or
\* a numeric offset +HH:MM / -HH:MM
WellFormed(ts) ==
    \/ Len(ts) = 2 /\ ts[1] \in GoodBodies /\ ts[2] = "Z"
    \/ /\ Len(ts) = 7
       /\ ts[1] \in GoodBodies
       /\ ts[2] \in Signs
       /\ ts[5] = ":"
       /\ \A i \in {3, 4, 6, 7} : ts[i] \in Digits
Malformed(ts) == ts # <<>> /\ ~WellFormed(ts)

\* the instant a well-formed timestamp names, in minutes UTC
Instant(ts) ==
    IF Len(ts) = 2 THEN Minutes(ts[1])
    ELSE Minutes(ts[1]) - ZoneMinutes(Tail(ts))

\* the endpoint method ended in the validation failure, nothing was handed
\* to the executor and nothing went out
ValidationFailure ==
    /\ api.phase = "done"
    /\ api.ret.kind = "raise"
    /\ api.ret.exc = "ValueError"
    /\ api.invocations = 0
    /\ api.req = NoRequest
    /\ sent[api.by] = <<>>
    /\ handle[api.by] = NoSession

\* C14: a malformed begin_timestamp or end_timestamp of get_isp_metrics or
\* query_isp_metrics (one bound supplied or both), or a malformed time of
\* list_devices, ends the call in the validation failure with no executor
\* invocation.
C14_MalformedNeverSent ==
    (/\ api.phase # "none"
     /\ \/ api.call.m \in Isp /\ (Malformed(api.call.a) \/ Malformed(api.call.b))
        \/ api.call.m = "list_devices" /\ Malformed(api.call.a))
    => ValidationFailure

\* C15: on two well-formed timestamps, in either form, the range validation
\* raises the validation failure when begin is at or after end and returns
\* normally when begin is before end; it has no third outcome.
C15_RangeOutcome ==
    (/\ api.phase # "none"
     /\ api.call.m \in Isp
     /\ api.range # "skipped"
     /\ WellFormed(api.call.a)
     /\ WellFormed(api.call.b))
    => IF Instant(api.call.a) >= Instant(api.call.b)
       THEN api.range = "order" /\ ValidationFailure
       ELSE api.range = "ok" /\ api.invocations = 1

\* C16: a page_size outside [1,100] given to list_hosts, list_sites or
\* list_devices ends the call in the validation failure: no executor
\* invocation, no session acquired.
C16_PageSizeRejected ==
    (/\ api.phase # "none"
     /\ api.call.m \in Paginated
     /\ api.call.mode # "default"
     /\ (api.call.page < 1 \/ api.call.page > 100))
    => ValidationFailure

\* C17: duration together with begin_timestamp, end_timestamp or both ends
\* get_isp_metrics and query_isp_metrics in the validation failure with no
\* executor invocation; duration alone, and timestamps without duration, are
\* not rejected by that rule.
C17_DurationExclusive ==
    (api.phase # "none" /\ api.call.m \in Isp) =>
        IF api.call.dur # "" /\ (api.call.a # <<>> \/ api.call.b # <<>>)
        THEN ValidationFailure
        ELSE api.ret.msg # "duration"

\* query_isp_metrics with a duration and an end_timestamp only was rejected
\* by the duration rule
C17_Witness ==
    /\ api.phase = "done"
    /\ api.call.m = "query_isp_metrics"
    /\ api.call.type = "5m"
    /\ api.call.dur = "24h"
    /\ api.call.a = <<>>
    /\ api.call.b = StampZ2
    /\ api.ret.msg = "duration"

\* C18: a get-by-id method with an empty identifier ends in the validation
\* failure with no executor invocation; with a non-empty identifier it makes
\* one GET invocation whose path is hosts/{id}, ea/sd-wan-configs/{id} or
\* ea/sd-wan-configs/{id}/status with the identifier put in as it is.
C18_GetById ==
    (api.phase # "none" /\ api.call.m \in ById) =>
        IF api.call.id = ""
        THEN ValidationFailure
        ELSE LET path == CASE api.call.m = "get_host_by_id" ->
                                "hosts/" \o api.call.id
                           [] api.call.m = "get_sd_wan_config_by_id" ->
                                "ea/sd-wan-configs/" \o api.call.id
                           [] api.call.m = "get_sd_wan_config_status" ->
                                "ea/sd-wan-configs/" \o api.call.id \o "/status"
             IN /\ api.invocations = 1
                /\ api.req.verb = "GET"
                /\ api.req.path = path
                /\ \A i \in 1..Len(sent[api.by]) :
                      /\ sent[api.by][i].req.verb = "GET"
                      /\ sent[api.by][i].req.path = path

\* get_sd_wan_config_status of an identifier with a slash in it has returned
\* the body of its one invocation
C18_Witness ==
    /\ api.phase = "done"
    /\ api.call.m = "get_sd_wan_config_status"
    /\ api.call.id = "a/b"
    /\ api.req.path = "ea/sd-wan-configs/a/b/status"
    /\ api.ret = Returned("json")

\* the arguments the endpoint's contract accepts
ValidArguments(c) ==
    CASE c.m \in Paginated ->
            /\ c.mode # "default" => (1 <= c.page /\ c.page <= 100)
            /\ ~Malformed(c.a)
      [] c.m \in Isp ->
            /\ c.type \in {"5m", "1h"}
            /\ ~(c.dur # "" /\ (c.a # <<>> \/ c.b # <<>>))
            /\ ~Malformed(c.a)
            /\ ~Malformed(c.b)
            /\ (c.a # <<>> /\ c.b # <<>>) => Instant(c.a) < Instant(c.b)
      [] c.m \in ById -> c.id # ""
      [] OTHER -> TRUE

\* the endpoint table
TableVerb(c) == IF c.m = "query_isp_metrics" THEN "POST" ELSE "GET"
TablePath(c) ==
    CASE c.m = "list_hosts" -> "hosts"
      [] c.m = "get_host_by_id" -> "hosts/" \o c.id
      [] c.m = "list_sites" -> "sites"
      [] c.m = "list_devices" -> "devices"
      [] c.m = "get_isp_metrics" -> "ea/isp-metrics/" \o c.type
      [] c.m = "query_isp_metrics" -> "ea/isp-metrics/" \o c.type \o "/query"
      [] c.m = "list_sd_wan_configs" -> "ea/sd-wan-configs"
      [] c.m = "get_sd_wan_config_by_id" -> "ea/sd-wan-configs/" \o c.id
      [] c.m = "get_sd_wan_config_status" ->
            "ea/sd-wan-configs/" \o c.id \o "/status"
TablePageSize(c) ==
    CASE c.m \notin Paginated -> ""
      [] c.mode = "default" -> "10"
      [] c.page = 1 -> "1"
      [] c.page = 100 -> "100"
      [] OTHER -> "?"

\* C19: an endpoint call with valid arguments makes exactly one executor
\* invocation, with the verb and path of the endpoint table (and pageSize or
\* a body where the table has one), and returns what the executor returned.
C19_ValidCallOneInvocation ==
    (api.phase # "none" /\ ValidArguments(api.call)) =>
        /\ api.invocations = 1
        /\ api.req.verb = TableVerb(api.call)
        /\ api.req.path = TablePath(api.call)
        /\ api.req.pageSize = TablePageSize(api.call)
        /\ api.call.m = "query_isp_metrics" => api.req.via = "json"
        /\ \A i \in 1..Len(sent[api.by]) : sent[api.by][i].req = api.req
        /\ api.phase = "done" => api.ret = result[api.by]

\* ---------------------------------------------------------------------------
\* the lock, and what the client's fields look like when it is free
\* ---------------------------------------------------------------------------

\* C22: no thread holds the session lock while it issues its request or has
\* it in flight; whoever holds the lock is inside one of the critical
\* sections (create / expiry check / rotate / clear), so requests of two
\* threads can be outstanding together and session operations of one thread
\* go on while another thread's request is outstanding.
C22_LockNotHeldInFlight ==
    /\ \A t \in Threads : pc[t] \in {"issue", "inflight"} => lock # t
    /\ lock # 0 =>
          pc[lock] \in {"s_close", "s_create", "s_stamp", "s_ret",
                         "r_exit", "c_exit"}

\* both threads have a request in flight, and nobody holds the lock
C22_Witness ==
    /\ lock = 0
    /\ \A t \in Threads :
          op[t] = "request" /\ pc[t] = "inflight" /\ Len(sent[t]) >= 1

\* C24: whenever the session lock is free, the client's session and its
\* creation timestamp are both present or both absent.
C24_SessionAndStampTogether ==
    lock = 0 => (session = NoSession <=> createdAt = NoTime)

\* the lock is free on a client that holds its second session, stamped
C24_Witness ==
    /\ lock = 0
    /\ session = 2
    /\ createdAt # NoTime
    /\ closes[1] = 1

\* C26: the refresh_session a caller makes after its 401/403 releases only
\* the session its failed attempt was issued on, never a newer session that
\* another thread created in the meantime.
C26_RefreshReleasesOwnSession ==
    \A t \in Threads :
        (op[t] = "request" /\ pc[t] = "r_exit") =>
            seen[t].sess \in {NoSession, sent[t][1].sess}

\* ---------------------------------------------------------------------------
\* the life of the session objects
\* ---------------------------------------------------------------------------

\* C25: every session object the client created is released at most once,
\* and every created session that is not the client's current one has been
\* released exactly once.
C25_NoLeakNoDoubleRelease ==
    \A s \in 1..(nextId - 1) :
        /\ closes[s] <= 1
        /\ s # session => closes[s] = 1

\* three calls in: sessions 1 and 2 are gone (one of them by a rotation or a
\* refresh, the last by close()), each released once, none is held
C25_Witness ==
    /\ nextId = 3
    /\ session = NoSession
    /\ closes[1] = 1
    /\ closes[2] = 1
    /\ \E t \in Threads : op[t] \in {"close", "exit"} /\ pc[t] = "done"

C27_State ==
    \* the current session is live for as long as it is the current one
    /\ (lock = 0 /\ session # NoSession) => closes[session] = 0
    /\ \A t \in Threads :
          \* an acquisition that found no session (first use, or after a
          \* close or refresh) returns one that did not exist before
          /\ (pc[t] = "s_ret" /\ seen[t].sess = NoSession) =>
                /\ session = seen[t].nid
                /\ nextId = session + 1
                /\ closes[session] = 0
                /\ \A s \in 1..(session - 1) : closes[s] = 1
          \* and every acquisition ends with a session in hand
          /\ (op[t] = "session" /\ pc[t] = "done") =>
                /\ result[t].kind = "return"
                /\ result[t].detail # NoSession

\* a session is released only by close(), refresh_session() or the rotation
\* of the session property
C27_ReleasedOnlyBy ==
    closes' # closes =>
        \E t \in Threads :
            /\ pc[t] \in {"c_enter", "r_enter", "s_close"}
            /\ pc'[t] \in {"c_exit", "r_exit", "s_create"}
            /\ closes' = [closes EXCEPT ![session] = @ + 1]

\* C27: close() is not terminal: the client stays usable, the next
\* acquisition creates a new session, distinct from every earlier one, which
\* stays live until a close, a refresh or an expiry rotation releases it.
C27_UsableAfterClose == []C27_State /\ [][C27_ReleasedOnlyBy]_vars

\* after a completed close() that released session 1, an acquisition is
\* about to return session 2
C27_Witness ==
    \E t, u \in Threads :
        /\ t # u
        /\ op[u] \in {"close", "exit"} /\ pc[u] = "done"
        /\ op[t] = "session" /\ pc[t] = "s_ret"
        /\ seen[t].sess = NoSession
        /\ seen[t].closes[1] = 1
        /\ session = 2
        /\ closes[2] = 0

\* ---------------------------------------------------------------------------
\* page_size, however it is passed
\* ---------------------------------------------------------------------------

\* the decimal text of the page sizes the calls are made with
PageText(p) ==
    CASE p = 0 -> "0" [] p = 1 -> "1" [] p = 10 -> "10"
      [] p = 100 -> "100" [] p = 101 -> "101"

\* C28: the page-size check of list_hosts, list_sites and list_devices is
\* made on the page_size the caller gave, by keyword or by position: a value
\* in [1,100] gives one executor invocation with that pageSize, a value
\* outside gives the validation failure, and no other error kind comes up.
C28_PageSizeHoweverPassed ==
    (/\ api.phase # "none"
     /\ api.call.m \in Paginated
     /\ api.call.mode \in {"keyword", "positional"}
     /\ ~Malformed(api.call.a))
    => IF 1 <= api.call.page /\ api.call.page <= 100
       THEN /\ api.invocations = 1
            /\ api.req.pageSize = PageText(api.call.page)
            /\ api.phase = "done" => api.ret = result[api.by]
       ELSE ValidationFailure

\* ---------------------------------------------------------------------------
\* with client: ...
\* ---------------------------------------------------------------------------

C21_State ==
    \A t \in Threads :
        \* close() called by __exit__ has done its work
        /\ (scope[t].state = "exiting" /\ pc[t] \in {"c_exit", "done"}) =>
              /\ session = NoSession
              /\ createdAt = NoTime
              /\ \A s \in 1..(nextId - 1) : closes[s] = 1
        \* the with block is left
        /\ (scope[t].state = "left" /\ op[t] = "exit") =>
              /\ lock = 0
              /\ session = NoSession
              /\ createdAt = NoTime
              /\ \A s \in 1..(nextId - 1) : closes[s] = 1
              /\ IF api.phase = "done" /\ api.ret.kind = "raise"
                 THEN result[t] = api.ret
                 ELSE result[t].kind = "return"

\* a with block is left only through __exit__ and its close()
C21_LeftThroughClose ==
    \A t \in Threads :
        (scope[t].state = "in" /\ scope'[t].state # "in") =>
            /\ scope'[t].state = "exiting"
            /\ pc'[t] = "c_enter"

\* C21: when a with block on the client is left, after a body that ended
\* normally or raised (an execution error or a validation failure), every
\* session acquired in it has been released, the client holds no session,
\* and the exception of the body goes on to the caller.
C21_ScopeReleases == []C21_State /\ [][C21_LeftThroughClose]_vars

\* a with block whose body acquired session 1 and ended in an execution
\* error has been left: the session is released, the error is the caller's
C21_Witness ==
    \E t \in Threads :
        /\ scope[t].state = "left"
        /\ op[t] = "exit"
        /\ api.phase = "done"
        /\ api.invocations = 1
        /\ api.ret.kind = "raise"
        /\ api.ret.exc = "UniFiApiError"
        /\ result[t] = api.ret
        /\ nextId = 2
        /\ closes[1] = 1
        /\ session = NoSession

\* ---------------------------------------------------------------------------
\* completion
\* ---------------------------------------------------------------------------

\* a thread about to take the lock does not hold it already
C23_NoSelfLock ==
    \A t \in Threads :
        pc[t] \in {"s_enter", "r_enter", "c_enter"} => lock # t

\* C23: under fair scheduling, and with every issued request ending in an
\* outcome, every session acquisition, refresh_session, close and
\* _make_request call of any thread ends, with a result or an error; no
\* thread waits for the lock forever or takes it while holding it.
C23_EveryCallCompletes ==
    /\ []C23_NoSelfLock
    /\ \A t \in Threads :
          (pc[t] \notin {"idle", "done"}) ~>
              (pc[t] = "done" /\ result[t].kind \in {"return", "raise"})

\* a thread waits at the lock for its retry's session while the other
\* thread is inside a critical section
C23_Witness ==
    \E t, u \in Threads :
        /\ t # u
        /\ op[t] = "request"
        /\ pc[t] = "s_enter"
        /\ refreshes[t] = 1
        /\ lock = u
=============================================================================
